---- MODULE Spec2Model ----
(***************************************************************************)
(* Model of the contact form of the portfolio site                         *)
(* (src/src/components/Contact.js): the sanitizers, the validators, the    *)
(* anti-spam heuristics and the submission handler with its primary and    *)
(* fallback requests.                                                      *)
(*                                                                         *)
(* A JavaScript string is a sequence of characters; a character is a       *)
(* one-character TLA+ string (the typographic apostrophe U+2019 is written *)
(* "rsquo").  Texts the program only passes on (alert texts, messages of   *)
(* errors and of response bodies) are TLA+ strings.                        *)
(***************************************************************************)
EXTENDS Integers, Sequences, FiniteSets, TLC

----------------------------------------------------------------------------
(* Characters and character classes of the regular expressions.            *)

UpperLetters ==
  <<"A","B","C","D","E","F","G","H","I","J","K","L","M",
    "N","O","P","Q","R","S","T","U","V","W","X","Y","Z">>

LowerLetters ==
  <<"a","b","c","d","e","f","g","h","i","j","k","l","m",
    "n","o","p","q","r","s","t","u","v","w","x","y","z">>

Range(q) == { q[i] : i \in 1..Len(q) }

Digits == {"0","1","2","3","4","5","6","7","8","9"}

\* \s of a JavaScript regular expression (the members the inputs use)
Whitespace == {" ", "\t", "\n"}

\* \w
WordChars == Range(UpperLetters) \cup Range(LowerLetters) \cup Digits \cup {"_"}

\* [\w\-/?&.=#%] of urlRegex
UrlChars == WordChars \cup {"-", "/", "?", "&", ".", "=", "#", "%"}

\* the accented letters of the ranges À-Ö, Ø-ö, ø-ÿ that the inputs use
AccentedLatin == {"À", "Ö", "Ø", "é", "ö", "ø", "ÿ"}

\* [A-Za-zÀ-ÖØ-öø-ÿ'’.\-\s] of isValidName
NameChars ==
  Range(UpperLetters) \cup Range(LowerLetters) \cup AccentedLatin
    \cup {"'", "rsquo", ".", "-"} \cup Whitespace

\* [^\s@] of isValidEmail
IsEmailChar(c) == c \notin Whitespace /\ c # "@"

\* the i flag: characters compare by their lower-case form
LowerOf ==
  [c \in Range(UpperLetters) |->
     LowerLetters[CHOOSE i \in 1..26 : UpperLetters[i] = c]]

ToLower(c) == IF c \in DOMAIN LowerOf THEN LowerOf[c] ELSE c

----------------------------------------------------------------------------
(* String primitives: slice, trim, and the regular-expression engine's     *)
(* leftmost, non-overlapping, global replace.                              *)

\* String.prototype.slice(0, n)
Slice(s, n) == IF Len(s) > n THEN SubSeq(s, 1, n) ELSE s

\* first index >= i of s whose character is not in class (Len(s)+1 if none):
\* where a greedy class* that starts at i stops
RECURSIVE SkipWhile(_, _, _)
SkipWhile(s, i, class) ==
  IF i > Len(s) \/ s[i] \notin class THEN i ELSE SkipWhile(s, i + 1, class)

\* last index <= i of s whose character is not in class (0 if none)
RECURSIVE SkipBackWhile(_, _, _)
SkipBackWhile(s, i, class) ==
  IF i < 1 \/ s[i] \notin class THEN i ELSE SkipBackWhile(s, i - 1, class)

\* first index >= i of s whose character is in class (0 if none)
RECURSIVE FirstIn(_, _, _)
FirstIn(s, i, class) ==
  IF i > Len(s) THEN 0
  ELSE IF s[i] \in class THEN i
  ELSE FirstIn(s, i + 1, class)

\* the literal lit (given in lower case when ci) occurs in s at index i
LitAt(s, i, lit, ci) ==
  /\ i + Len(lit) - 1 <= Len(s)
  /\ \A k \in 1..Len(lit) :
       (IF ci THEN ToLower(s[i + k - 1]) ELSE s[i + k - 1]) = lit[k]

\* the longest range of indices that a global replace scans in one stretch
ScanStretch == 32

\* String.prototype.trim()
Trim(s) ==
  LET first == SkipWhile(s, 1, Whitespace)
  IN IF first > Len(s) THEN <<>>
     ELSE SubSeq(s, first, SkipBackWhile(s, Len(s), Whitespace))

\* s.replace(/re/g, rep), where MatchEnd(s, i) is the index of the last
\* character of the match of re that starts at i, or 0 when re does not match
\* at i (no pattern of the program matches the empty string).  The scan goes
\* from left to right; a range of more than ScanStretch indices is scanned as
\* its two halves, one after the other, which keeps the evaluation shallow on
\* long strings and does not change the result.
ReplaceAll(s, MatchEnd(_, _), rep) ==
  LET n == Len(s)
      \* the output of the scan from index i up to index hi
      out[i \in 1..(n + 1), hi \in 1..n] ==
        IF i > hi THEN <<>>
        ELSE LET e == MatchEnd(s, i)
             IN IF e = 0 THEN <<s[i]>> \o out[i + 1, hi]
                ELSE rep \o out[e + 1, hi]
      \* the index after hi at which that scan goes on
      resume[i \in 1..(n + 1), hi \in 1..n] ==
        IF i > hi THEN i
        ELSE LET e == MatchEnd(s, i)
             IN resume[IF e = 0 THEN i + 1 ELSE e + 1, hi]
      resumeIn[lo \in 1..n, hi \in 1..n, i \in 1..(n + 1)] ==
        IF hi - lo < ScanStretch THEN resume[i, hi]
        ELSE LET mid == (lo + hi) \div 2
             IN resumeIn[mid + 1, hi, resumeIn[lo, mid, i]]
      outIn[lo \in 1..n, hi \in 1..n, i \in 1..(n + 1)] ==
        IF hi - lo < ScanStretch THEN out[i, hi]
        ELSE LET mid == (lo + hi) \div 2
             IN outIn[lo, mid, i] \o outIn[mid + 1, hi, resumeIn[lo, mid, i]]
  IN IF s = <<>> THEN <<>> ELSE outIn[1, n, 1]

\* s.match(/re/g) is not null
HasMatch(s, MatchEnd(_, _)) == \E i \in 1..Len(s) : MatchEnd(s, i) # 0

----------------------------------------------------------------------------
(* Sanitizers, Contact.js:58-105                                           *)

\* /<[^>]*>/ at i
TagEnd(s, i) == IF s[i] = "<" THEN FirstIn(s, i + 1, {">"}) ELSE 0

stripTags(s) == IF s = <<>> THEN <<>> ELSE ReplaceAll(s, TagEnd, <<>>)

\* /javascript\s*:/i at i
JavascriptSchemeEnd(s, i) ==
  LET lit == <<"j","a","v","a","s","c","r","i","p","t">>
  IN IF ToLower(s[i]) = "j" /\ LitAt(s, i, lit, TRUE)
       THEN LET j == SkipWhile(s, i + Len(lit), Whitespace)
            IN IF j <= Len(s) /\ s[j] = ":" THEN j ELSE 0
       ELSE 0

\* /(?:on\w+)\s*=\s*['"][^'"]*['"]/i at i
EventHandlerEnd(s, i) ==
  LET quotes == {"'", "\""}
  IN IF ToLower(s[i]) = "o" /\ LitAt(s, i, <<"o","n">>, TRUE)
       THEN LET w == SkipWhile(s, i + 2, WordChars)
                eq == SkipWhile(s, w, Whitespace)
            IN IF w > i + 2 /\ eq <= Len(s) /\ s[eq] = "="
                 THEN LET q1 == SkipWhile(s, eq + 1, Whitespace)
                      IN IF q1 <= Len(s) /\ s[q1] \in quotes
                           THEN FirstIn(s, q1 + 1, quotes)
                           ELSE 0
                 ELSE 0
       ELSE 0

removeDangerousUris(s) ==
  IF s = <<>> THEN <<>>
  ELSE ReplaceAll(ReplaceAll(s, JavascriptSchemeEnd, <<>>), EventHandlerEnd, <<>>)

\* s.replace(/c/g, rep) for a single character c
ReplaceChar(s, c, rep) ==
  LET CharEnd(t, i) == IF t[i] = c THEN i ELSE 0
  IN IF c \in Range(s) THEN ReplaceAll(s, CharEnd, rep) ELSE s

encodeHtmlEntitiesKeepsLt(s) ==
  IF s = <<>> THEN <<>>
  ELSE LET a == ReplaceChar(s, "&", <<"&","a","m","p",";">>)
           c == ReplaceChar(a, ">", <<"&","g","t",";">>)
           d == ReplaceChar(c, "\"", <<"&","q","u","o","t",";">>)
       IN ReplaceChar(d, "'", <<"&","#","3","9",";">>)
encodeHtmlEntities(s) ==
  IF s = <<>> THEN <<>>
  ELSE LET a == ReplaceChar(s, "&", <<"&","a","m","p",";">>)
           b == ReplaceChar(a, "<", <<"&","l","t",";">>)
           c == ReplaceChar(b, ">", <<"&","g","t",";">>)
           d == ReplaceChar(c, "\"", <<"&","q","u","o","t",";">>)
       IN ReplaceChar(d, "'", <<"&","#","3","9",";">>)

\* /\s+/ at i
WhitespaceRunEnd(s, i) ==
  IF s[i] \in Whitespace THEN SkipWhile(s, i, Whitespace) - 1 ELSE 0

sanitizeMessage(s, maxLen) ==
  IF s = <<>> THEN <<>>
  ELSE LET stripped == stripTags(s)
           cleaned  == removeDangerousUris(stripped)
           collapsed == Trim(ReplaceAll(cleaned, WhitespaceRunEnd, <<" ">>))
           cut == IF Len(collapsed) > maxLen THEN Slice(collapsed, maxLen)
                  ELSE collapsed
       IN encodeHtmlEntities(cut)

----------------------------------------------------------------------------
(* Validators, Contact.js:81-92                                            *)

\* /^[^\s@]+@[^\s@]+\.[^\s@]+$/
isValidEmail(s) ==
  /\ s # <<>>
  /\ \E at \in 1..Len(s), dot \in 1..Len(s) :
       /\ s[at] = "@"
       /\ s[dot] = "."
       /\ 1 < at /\ at + 1 < dot /\ dot < Len(s)
       /\ \A k \in 1..Len(s) : k # at => IsEmailChar(s[k])

\* /^[A-Za-zÀ-ÖØ-öø-ÿ'’.\-\s]{1,100}$/.test(s.trim())
isValidName(s) ==
  /\ s # <<>>
  /\ LET t == Trim(s)
     IN /\ 1 <= Len(t) /\ Len(t) <= 100
        /\ \A k \in 1..Len(t) : t[k] \in NameChars

----------------------------------------------------------------------------
(* Thresholds and ceilings of handleSubmit                                 *)

MAX_MESSAGE == 2000
MAX_NAME == 100
MAX_EMAIL == 254
minSeconds == 5
minMessageLength == 15
minNonUrlChars == 10

(* Bounds of the model                                                     *)

\* Date.now() when the form mounts, in milliseconds
StartMs == 1000
\* the clock advances in steps of TickMs, at most MaxTicks times
TickMs == 2500
MaxTicks == 2
\* handleSubmit invocations that may be suspended at an await at once
MaxInflight == 2

----------------------------------------------------------------------------
(* The values the user can type into the fields                            *)

\* "Al"
NameAl ==
  <<"A","l">>

\* "a@b.co"
EmailGood ==
  <<"a","@","b",".","c","o">>

\* "http://x.com"
MsgShortUrl ==
  <<"h","t","t","p",":","/","/","x",".","c","o","m">>

\* "http://x.com/?a=1&b=2"
MsgAmpUrl ==
  <<"h","t","t","p",":","/","/","x",".","c","o","m","/","?","a","=","1","&",
    "b","=","2">>

\* "http://example.com:8080/path"
MsgPortUrl ==
  <<"h","t","t","p",":","/","/","e","x","a","m","p","l","e",".","c","o","m",
    ":","8","0","8","0","/","p","a","t","h">>

\* "Check this out http://x.com it's really useful for work"
MsgUrlWithContext ==
  <<"C","h","e","c","k"," ","t","h","i","s"," ","o","u","t"," ","h","t","t",
    "p",":","/","/","x",".","c","o","m"," ","i","t","'","s"," ","r","e","a",
    "l","l","y"," ","u","s","e","f","u","l"," ","f","o","r"," ","w","o","r",
    "k">>

\* "<b>Hi</b> & please call me back"
MsgMarkup ==
  <<"<","b",">","H","i","<","/","b",">"," ","&"," ","p","l","e","a","s","e",
    " ","c","a","l","l"," ","m","e"," ","b","a","c","k">>

Names == { <<>>, NameAl }
Emails == { <<>>, EmailGood }
Honeypots == { <<>>, <<" ">>, <<"x">> }
Messages ==
  { <<>>, MsgShortUrl, MsgAmpUrl, MsgPortUrl, MsgUrlWithContext, MsgMarkup }

FieldValues(field) ==
  CASE field = "name" -> Names
    [] field = "email" -> Emails
    [] field = "message" -> Messages
    [] field = "hp_field" -> Honeypots

Fields == {"name", "email", "message", "hp_field"}

----------------------------------------------------------------------------
(* Further values a user can type, for the properties of the sanitizers,   *)
(* the validators and the payload                                          *)

\* "5 > 3 and 2 < 4, right?"
MsgLoneAngles ==
  <<"5"," ",">"," ","3"," ","a","n","d"," ","2"," ","<"," ","4",","," ","r",
    "i","g","h","t","?">>

\* "javajavascript:script:alert(1) is what I typed"
MsgNestedScheme ==
  <<"j","a","v","a","j","a","v","a","s","c","r","i","p","t",":","s","c","r",
    "i","p","t",":","a","l","e","r","t","(","1",")"," ","i","s"," ","w","h",
    "a","t"," ","I"," ","t","y","p","e","d">>

\* "I'm Al & I'm ok"
MsgEntities ==
  <<"I","'","m"," ","A","l"," ","&"," ","I","'","m"," ","o","k">>

\* "<<b>script>alert(1)<</b>/script> hello"
MsgNestedTag ==
  <<"<","<","b",">","s","c","r","i","p","t",">","a","l","e","r","t","(","1",
    ")","<","<","/","b",">","/","s","c","r","i","p","t",">"," ","h","e","l",
    "l","o">>

\* "my tip: onclick="x()" is an attribute"
MsgEventHandler ==
  <<"m","y"," ","t","i","p",":"," ","o","n","c","l","i","c","k","=","\"",
    "x","(",")","\""," ","i","s"," ","a","n"," ","a","t","t","r","i","b",
    "u","t","e">>

\* "Tom &amp; Jerry"
MsgTypedEntity ==
  <<"T","o","m"," ","&","a","m","p",";"," ","J","e","r","r","y">>

\* MAX_MESSAGE characters, the last of them "&"
MsgLong == [i \in 1..(MAX_MESSAGE - 1) |-> "a"] \o <<"&">>

\* "please call me back"
Context ==
  <<"p","l","e","a","s","e"," ","c","a","l","l"," ","m","e"," ","b","a","c",
    "k">>

\* the pieces that the composed messages are made of
MessageTokens ==
  { <<"<">>, <<">">>, <<"&">>, <<"'">>, <<"\"">>, <<" ">>,
    <<"j","a","v","a">>, <<"s","c","r","i","p","t",":">>,
    <<"o","n","x","=">>, Context }

\* pieces in a composed message
MaxTokens == 2

\* the messages made of at most k pieces
RECURSIVE Composed(_)
Composed(k) ==
  IF k = 0 THEN { <<>> }
  ELSE LET shorter == Composed(k - 1)
       IN shorter \cup { m \o t : m \in shorter, t \in MessageTokens }

MessagesUnderTest ==
  Composed(MaxTokens)
    \cup { MsgMarkup, MsgUrlWithContext, MsgLoneAngles, MsgNestedScheme,
           MsgEntities, MsgNestedTag, MsgEventHandler, MsgTypedEntity, MsgLong }

\* "  Al "
NamePadded ==
  <<" "," ","A","l"," ">>

\* "<b>Al</b>"
NameTag ==
  <<"<","b",">","A","l","<","/","b",">">>

\* "D'Arcy O'Neil"
NameApostrophe ==
  <<"D","'","A","r","c","y"," ","O","'","N","e","i","l">>

\* MAX_NAME apostrophes
NameQuotes == [i \in 1..MAX_NAME |-> "'"]

\* MAX_NAME - 1 letters and two spaces: MAX_NAME + 1 characters as typed
NameLongPadded == [i \in 1..(MAX_NAME - 1) |-> "A"] \o <<" ", " ">>

\* MAX_NAME + 1 letters
NameTooLong == [i \in 1..(MAX_NAME + 1) |-> "A"]

NamesUnderTest ==
  { <<>>, <<" ">>, NameAl, NamePadded, NameTag, NameApostrophe, NameQuotes,
    NameLongPadded, NameTooLong }

\* the forms whose submission is examined: each name with a message that
\* passes the checks, and each message with a name that passes them
FormsUnderTest ==
  { [name |-> n, email |-> EmailGood, message |-> MsgUrlWithContext,
     hp_field |-> <<>>] : n \in NamesUnderTest }
    \cup { [name |-> NameApostrophe, email |-> EmailGood, message |-> m,
            hp_field |-> <<>>] : m \in MessagesUnderTest }

----------------------------------------------------------------------------
(* What the endpoint, the transport and the router can answer              *)

\* HTTP statuses of a response; Response.ok is status in 200..299
Statuses == {200, 422}
IsOk(status) == 200 <= status /\ status <= 299

\* error.message of the exception a rejected fetch() throws
ExceptionMessages == {"Failed to fetch", ""}

\* A response body as response.json() yields it: parseable or not; with an
\* errors list or not; with a type string or not ("" when absent).
Body(parseable, hasErrors, errors, type) ==
  [parseable |-> parseable, hasErrors |-> hasErrors, errors |-> errors,
   type |-> type]

NoBody == Body(FALSE, FALSE, <<>>, "")
Unparseable == NoBody

PrimaryBodies ==
  { Unparseable,
    Body(TRUE, TRUE, <<[message |-> "rate limited"], [message |-> "try later"]>>, ""),
    Body(TRUE, TRUE, <<>>, ""),
    Body(TRUE, FALSE, <<>>, "VALIDATION"),
    Body(TRUE, FALSE, <<>>, "") }

FallbackBodies ==
  { Unparseable,
    Body(TRUE, TRUE, <<[message |-> "bad email"]>>, "") }

----------------------------------------------------------------------------
(* Texts shown to the user                                                 *)

AlertName ==
  "Please enter a valid name (letters, spaces, and basic punctuation only)."
AlertEmail == "Please enter a valid email address."
AlertSpam == "Submission blocked: detected as spam."
AlertTooFast ==
  "Please take a moment to write your message before submitting."
AlertTooShort ==
  "Please provide a bit more detail in your message (at least 15 characters)."
AlertLinkOnly ==
  "Please include some context in your message in addition to links."
AlertGeneric == "There was an error sending your message. Please try again."
TextFormFailed == "Form submission failed"
SubmissionFailed(status) ==
  "Submission failed (status " \o ToString(status) \o ")"

\* data.errors.map((x) => x.message || x).join(', ')
JoinErrors(errors) ==
  LET item(x) == IF x.message # "" THEN x.message ELSE "[object Object]"
      from[i \in 1..(Len(errors) + 1)] ==
        IF i > Len(errors) THEN ""
        ELSE IF i = Len(errors) THEN item(errors[i])
        ELSE item(errors[i]) \o ", " \o from[i + 1]
  IN from[1]

----------------------------------------------------------------------------
(* State                                                                   *)

VARIABLES
  formData,      \* useState: the four fields of the form
  formStartRef,  \* useRef(Date.now()).current: when the form was mounted
  now,           \* Date.now()
  isSubmitting,  \* useState: disables the submit button
  inflight,      \* the handleSubmit invocations suspended at an await
  completed,     \* the latest handleSubmit invocation, once it has returned
  sections       \* Hero and Contact: mount, DOM node and IntersectionObserver

vars ==
  <<formData, formStartRef, now, isSubmitting, inflight, completed, sections>>

\* One invocation of handleSubmit: the values its closure holds and what it
\* has done so far.
\*   pc          where it is suspended, or "done"
\*   raw         formData as the invocation read it
\*   elapsedMs   now - formStartRef.current as the invocation computed it
\*   rejection   the local check that returned early, or "none"
\*   payload     the payload object ("built" says whether line 140 ran)
\*   requests    the fetch() calls made, in order
\*   primary, fallback   "none", "pending", "ok", "notOk" or "threw"
\*   fbData, primaryData the bodies read by the two .json() calls
\*   fbErr       the text of the Error thrown at line 249 ("" if not thrown)
\*   alerts      the alert() texts shown, in order
\*   navigations the navigations to /thank-you performed, in order
NoPayload == [name |-> <<>>, email |-> <<>>, message |-> <<>>, hp_field |-> <<>>]

NewAttempt(fd, elapsedMs) ==
  [pc |-> "sync", raw |-> fd, elapsedMs |-> elapsedMs, rejection |-> "none",
   built |-> FALSE, payload |-> NoPayload, requests |-> <<>>,
   primary |-> "none", primaryStatus |-> 0, primaryData |-> NoBody,
   fallback |-> "none", fallbackStatus |-> 0, fbData |-> NoBody,
   fbErr |-> "", alerts |-> <<>>, navigations |-> <<>>]

Attempts == Range(inflight) \cup Range(completed)

\* useState({ name: '', email: '', message: '', hp_field: '' }), Contact.js:7-14
InitialFormData ==
  [name |-> <<>>, email |-> <<>>, message |-> <<>>, hp_field |-> <<>>]

\* A section (Hero or Contact) and the IntersectionObserver of its effect.
\*   mounted       the component is mounted
\*   node          the element of its latest mount, which ref.current holds
\*                 (every mount renders a new element; 0 before the first)
\*   visible       the classList of that element contains 'visible'
\*   observed      the elements that the observers of the section observe
\*   intersecting  that element is inside the viewport (threshold 0.1)
\*   queued        the entries the browser holds for the next callback
Sections == {"Hero", "Contact"}

\* mounts of one section
MaxMounts == 2
\* entries the browser holds for one section before it runs the callback
MaxQueued == 2

NoSection ==
  [mounted |-> FALSE, node |-> 0, visible |-> FALSE, observed |-> {},
   intersecting |-> FALSE, queued |-> <<>>]

\* an IntersectionObserverEntry
Entry(target, isIntersecting) ==
  [target |-> target, isIntersecting |-> isIntersecting]

\* observer.observe(node), Hero.js:25 and Contact.js:36
Observe(observed, node) == observed \cup {node}

\* the cleanup of the effect, observer.unobserve(node), Hero.js:27-29 and
\* Contact.js:38-40
UnobserveForgotten(observed, node) == observed
Unobserve(observed, node) == observed \ {node}

\* The mount of a section and its effect, Hero.js:10-25 and Contact.js:21-36:
\* the section renders a new element, which the ref holds when the effect
\* runs (so the guard of line 12 / 23 does not return), and a new observer
\* observes it; the browser queues the first entry of a new target.
EffectMount(sec, isIntersecting) ==
  LET node == sec.node + 1
  IN [mounted |-> TRUE, node |-> node, visible |-> FALSE,
      observed |-> Observe(sec.observed, node),
      intersecting |-> isIntersecting,
      queued |-> Append(sec.queued, Entry(node, isIntersecting))]

\* the unmount of a section: React runs the cleanup of the effect
EffectCleanup(sec) ==
  [sec EXCEPT !.mounted = FALSE,
              !.observed = Unobserve(sec.observed, sec.node)]

\* the element crosses the threshold; the browser queues an entry for it
\* when an observer observes it
ThresholdCrossed(sec) ==
  [sec EXCEPT !.intersecting = ~sec.intersecting,
              !.queued = IF sec.node \in sec.observed
                           THEN Append(sec.queued,
                                       Entry(sec.node, ~sec.intersecting))
                           ELSE sec.queued]

\* the callback of the observer, Hero.js:15-21 and Contact.js:26-32, run on
\* the queued entries: entry.target.classList.add('visible') for every entry
\* that intersects (an entry of an earlier mount marks that mount's element)
ObserverCallback(sec) ==
  [sec EXCEPT !.visible = sec.visible
                            \/ \E k \in 1..Len(sec.queued) :
                                 /\ sec.queued[k].isIntersecting
                                 /\ sec.queued[k].target = sec.node,
              !.queued = <<>>]

Init ==
  /\ formData = InitialFormData
  /\ now = StartMs
  /\ formStartRef = StartMs
  /\ isSubmitting = FALSE
  /\ inflight = <<>>
  /\ completed = <<>>
  /\ sections = [c \in Sections |-> EffectMount(NoSection, FALSE)]

----------------------------------------------------------------------------
(* User input and the clock                                                *)

\* Contact.js:43-48
handleChange(field, value) ==
  /\ formData' = [formData EXCEPT ![field] = value]
  /\ UNCHANGED <<formStartRef, now, isSubmitting, inflight, completed, sections>>

Tick ==
  /\ now < StartMs + MaxTicks * TickMs
  /\ now' = now + TickMs
  /\ UNCHANGED <<formData, formStartRef, isSubmitting, inflight, completed, sections>>

----------------------------------------------------------------------------
(* handleSubmit up to its first await, Contact.js:107-206                  *)

\* payload, Contact.js:140-146
BuildPayload(fd) ==
  [name |-> Slice(encodeHtmlEntities(Trim(fd.name)), MAX_NAME),
   email |-> Slice(Trim(fd.email), MAX_EMAIL),
   message |-> sanitizeMessage(fd.message, MAX_MESSAGE),
   hp_field |-> Trim(fd.hp_field)]

\* elapsed time since mount in milliseconds, Contact.js:162-163
ElapsedMs(startRef, nowMs) ==
  nowMs - (IF startRef # 0 THEN startRef ELSE nowMs)

\* elapsedSeconds < minSeconds, Contact.js:163-165
TooFastConfusesUnits(elapsedMs) == elapsedMs < minSeconds
TooFast(elapsedMs) == elapsedMs < minSeconds * 1000

\* /&lt;|&gt;|&amp;|&quot;|&#39;/ at i
EntityEnd(s, i) ==
  LET entities == << <<"&","l","t",";">>, <<"&","g","t",";">>,
                     <<"&","a","m","p",";">>, <<"&","q","u","o","t",";">>,
                     <<"&","#","3","9",";">> >>
  IN IF s[i] # "&" THEN 0  \* every entity begins with "&"
     ELSE IF \E k \in 1..Len(entities) : LitAt(s, i, entities[k], FALSE)
       THEN LET k == CHOOSE k \in 1..Len(entities) :
                       /\ LitAt(s, i, entities[k], FALSE)
                       /\ \A j \in 1..(k-1) : ~LitAt(s, i, entities[j], FALSE)
            IN i + Len(entities[k]) - 1
       ELSE 0

\* decodedMsg, Contact.js:173
DecodedMsg(message) == ReplaceAll(message, EntityEnd, <<>>)

\* urlRegex, Contact.js:183: /https?:\/\/[\w\-/?&.=#%]+|www\.[\w\-/?&.=#%]+/i at i
UrlEnd(s, i) ==
  LET tail(j) ==  \* [\w\-/?&.=#%]+ from j
        LET e == SkipWhile(s, j, UrlChars) IN IF e > j THEN e - 1 ELSE 0
      http == <<"h","t","t","p">>
      sep == <<":","/","/">>
  IN IF ToLower(s[i]) \notin {"h", "w"} THEN 0  \* a URL begins with h or w
     ELSE IF LitAt(s, i, http, TRUE)
          /\ LitAt(s, i + 4, <<"s">>, TRUE) /\ LitAt(s, i + 5, sep, TRUE)
          /\ tail(i + 8) # 0
       THEN tail(i + 8)
     ELSE IF LitAt(s, i, http, TRUE) /\ LitAt(s, i + 4, sep, TRUE)
          /\ tail(i + 7) # 0
       THEN tail(i + 7)
     ELSE IF LitAt(s, i, <<"w","w","w",".">>, TRUE) /\ tail(i + 4) # 0
       THEN tail(i + 4)
     ELSE 0

\* the link-only test, Contact.js:184-193
LinkOnlyIgnored(decodedMsg) == FALSE
LinkOnly(decodedMsg) ==
  /\ HasMatch(decodedMsg, UrlEnd)
  /\ LET noUrls == ReplaceAll(decodedMsg, UrlEnd, <<>>)
         stripped == ReplaceAll(noUrls, WhitespaceRunEnd, <<>>)
     IN Len(stripped) < minNonUrlChars

\* the local checks in the order of their if statements (lines 124, 131, 153,
\* 163, 175 and 184)
CheckOrder ==
  <<"name", "email", "honeypot", "tooFast", "tooShort", "linkOnly">>

\* The conditions of those if statements, each taken on its own: the checks
\* whose condition holds for the form fd submitted after elapsedMs.
FailedChecks(fd, elapsedMs) ==
  LET payload == BuildPayload(fd)
      decodedMsg == DecodedMsg(payload.message)
  IN { check \in Range(CheckOrder) :
         CASE check = "name" ->
                Len(fd.name) = 0 \/ Len(fd.name) > MAX_NAME
                  \/ ~isValidName(fd.name)
           [] check = "email" ->
                Len(fd.email) = 0 \/ Len(fd.email) > MAX_EMAIL
                  \/ ~isValidEmail(fd.email)
           [] check = "honeypot" -> payload.hp_field # <<>>
           [] check = "tooFast" -> TooFast(elapsedMs)
           [] check = "tooShort" -> Len(decodedMsg) < minMessageLength
           [] check = "linkOnly" -> LinkOnly(decodedMsg) }

\* The check of lines 123-193 that returns early, or "none" when the
\* invocation reaches the try block.
LocalRejectionHoneypotFirst(fd, elapsedMs) ==
  IF Trim(fd.hp_field) # <<>> THEN "honeypot"
  ELSE IF Len(fd.name) = 0 \/ Len(fd.name) > MAX_NAME \/ ~isValidName(fd.name)
    THEN "name"
  ELSE IF Len(fd.email) = 0 \/ Len(fd.email) > MAX_EMAIL \/ ~isValidEmail(fd.email)
    THEN "email"
  ELSE LET payload == BuildPayload(fd)
           decodedMsg == DecodedMsg(payload.message)
       IN IF TooFast(elapsedMs) THEN "tooFast"
          ELSE IF Len(decodedMsg) < minMessageLength THEN "tooShort"
          ELSE IF LinkOnly(decodedMsg) THEN "linkOnly"
          ELSE "none"
LocalRejection(fd, elapsedMs) ==
  IF Len(fd.name) = 0 \/ Len(fd.name) > MAX_NAME \/ ~isValidName(fd.name)
    THEN "name"
  ELSE IF Len(fd.email) = 0 \/ Len(fd.email) > MAX_EMAIL \/ ~isValidEmail(fd.email)
    THEN "email"
  ELSE LET payload == BuildPayload(fd)
           decodedMsg == DecodedMsg(payload.message)
       IN IF payload.hp_field # <<>> THEN "honeypot"
          ELSE IF TooFast(elapsedMs) THEN "tooFast"
          ELSE IF Len(decodedMsg) < minMessageLength THEN "tooShort"
          ELSE IF LinkOnly(decodedMsg) THEN "linkOnly"
          ELSE "none"

\* the alert of each early return
RejectionAlertGeneric(kind) ==
  CASE kind = "name" -> AlertName
    [] kind = "email" -> AlertEmail
    [] OTHER -> AlertSpam
RejectionAlert(kind) ==
  CASE kind = "name" -> AlertName
    [] kind = "email" -> AlertEmail
    [] kind = "honeypot" -> AlertSpam
    [] kind = "tooFast" -> AlertTooFast
    [] kind = "tooShort" -> AlertTooShort
    [] kind = "linkOnly" -> AlertLinkOnly

\* body: JSON.stringify(payload), Contact.js:199-206
PrimaryRequest(payload) ==
  [encoding |-> "json", name |-> payload.name, email |-> payload.email,
   message |-> payload.message, hasHoneypot |-> TRUE,
   hp_field |-> payload.hp_field]

\* formDataFallback, Contact.js:221-232
FallbackRequestFromForm(payload) ==
  [encoding |-> "formdata", name |-> BuildPayload(formData).name,
   email |-> BuildPayload(formData).email,
   message |-> BuildPayload(formData).message,
   hasHoneypot |-> FALSE, hp_field |-> <<>>]
FallbackRequest(payload) ==
  [encoding |-> "formdata", name |-> payload.name, email |-> payload.email,
   message |-> payload.message, hasHoneypot |-> FALSE, hp_field |-> <<>>]

\* <button type="submit" disabled={isSubmitting}>, Contact.js:375-377: a
\* submit event reaches handleSubmit only while the button is enabled
SubmitAlwaysEnabled == TRUE
SubmitEnabled == ~isSubmitting

\* the return statement that ends each failed check (lines 127, 134, 157,
\* 168, 178 and 191): only an invocation that failed none goes on to the try
\* block
ProceedsAfterLinkOnly(kind) == kind \in {"none", "linkOnly"}
Proceeds(kind) == kind = "none"

handleSubmitStoresPayload ==
  /\ SubmitEnabled
  /\ Len(inflight) < MaxInflight
  /\ \E elapsedMs \in {ElapsedMs(formStartRef, now)} :
     \E kind \in {LocalRejection(formData, elapsedMs)} :
     \E a \in {[NewAttempt(formData, elapsedMs) EXCEPT
                  !.rejection = kind,
                  !.built = kind \notin {"name", "email"},
                  !.payload = IF kind \in {"name", "email"} THEN NoPayload
                              ELSE BuildPayload(formData),
                  !.alerts = IF kind = "none" THEN <<>>
                             ELSE <<RejectionAlert(kind)>>]} :
       IF ~Proceeds(kind)
         THEN \* alert(...); setIsSubmitting(false); return
              /\ completed' = <<[a EXCEPT !.pc = "done"]>>
              /\ isSubmitting' = FALSE
              /\ UNCHANGED inflight
         ELSE \* setIsSubmitting(true) ... await fetch(form.action, ...)
              /\ inflight' = Append(inflight,
                   [a EXCEPT !.pc = "awaitPrimary", !.primary = "pending",
                             !.requests = <<PrimaryRequest(a.payload)>>])
              /\ isSubmitting' = TRUE
              /\ completed' = <<>>
  /\ formData' = IF LocalRejection(formData, 0) \in {"name", "email"}
                   THEN formData
                   ELSE [formData EXCEPT
                           !.message = BuildPayload(formData).message]
  /\ UNCHANGED <<formStartRef, now, sections>>
handleSubmit ==
  /\ SubmitEnabled
  /\ Len(inflight) < MaxInflight
  /\ \E elapsedMs \in {ElapsedMs(formStartRef, now)} :
     \E kind \in {LocalRejection(formData, elapsedMs)} :
     \E a \in {[NewAttempt(formData, elapsedMs) EXCEPT
                  !.rejection = kind,
                  !.built = kind \notin {"name", "email"},
                  !.payload = IF kind \in {"name", "email"} THEN NoPayload
                              ELSE BuildPayload(formData),
                  !.alerts = IF kind = "none" THEN <<>>
                             ELSE <<RejectionAlert(kind)>>]} :
       IF ~Proceeds(kind)
         THEN \* alert(...); setIsSubmitting(false); return
              /\ completed' = <<[a EXCEPT !.pc = "done"]>>
              /\ isSubmitting' = FALSE
              /\ UNCHANGED inflight
         ELSE \* setIsSubmitting(true) ... await fetch(form.action, ...)
              /\ inflight' = Append(inflight,
                   [a EXCEPT !.pc = "awaitPrimary", !.primary = "pending",
                             !.requests = <<PrimaryRequest(a.payload)>>])
              /\ isSubmitting' = TRUE
              /\ completed' = <<>>
  /\ UNCHANGED <<formData, formStartRef, now, sections>>

----------------------------------------------------------------------------
(* handleSubmit after its awaits, Contact.js:208-267                       *)

RemoveAt(q, i) == SubSeq(q, 1, i - 1) \o SubSeq(q, i + 1, Len(q))

\* try { navigate('/thank-you') } catch { window.location.href = '/thank-you' }
\* Contact.js:210-214 and 235-239: the navigation that takes place
NavigateWithoutRedirect(navThrows) == IF navThrows THEN <<>> ELSE <<"navigate">>
Navigate(navThrows) == IF navThrows THEN <<"location">> ELSE <<"navigate">>

\* catch (error) { alert(error.message || '...') }, Contact.js:262-264
OuterCatchAlert(message) == IF message # "" THEN message ELSE AlertGeneric

\* fbErr, Contact.js:244-248
FbErr(body, status) ==
  IF body.parseable /\ body.hasErrors THEN JoinErrors(body.errors)
  ELSE SubmissionFailed(status)

\* the message of the Error thrown at line 260, Contact.js:251-260
ErrText(body, status) ==
  LET errText == IF body.parseable /\ body.hasErrors THEN JoinErrors(body.errors)
                 ELSE IF body.parseable /\ body.type # "" THEN body.type
                 ELSE TextFormFailed
  IN IF errText # "" THEN errText ELSE SubmissionFailed(status)

\* finally { setIsSubmitting(false) }, Contact.js:265-267: invocation i of
\* inflight continues as a2; when a2 has returned, the finally block runs
SettleWithoutFinally(i, a2) ==
  IF a2.pc = "done"
    THEN /\ completed' = <<a2>>
         /\ inflight' = RemoveAt(inflight, i)
         /\ UNCHANGED isSubmitting
    ELSE /\ inflight' = [inflight EXCEPT ![i] = a2]
         /\ UNCHANGED <<completed, isSubmitting>>
Settle(i, a2) ==
  IF a2.pc = "done"
    THEN /\ completed' = <<a2>>
         /\ inflight' = RemoveAt(inflight, i)
         /\ isSubmitting' = FALSE
    ELSE /\ inflight' = [inflight EXCEPT ![i] = a2]
         /\ UNCHANGED <<completed, isSubmitting>>

\* the primary fetch resolved with a response, Contact.js:208-232
AfterPrimaryResponseNoReturn(a, status, navThrows) ==
  [a EXCEPT !.primary = IF IsOk(status) THEN "ok" ELSE "notOk",
            !.primaryStatus = status,
            !.navigations = IF IsOk(status) THEN @ \o Navigate(navThrows) ELSE @,
            !.requests = Append(@, FallbackRequest(a.payload)),
            !.fallback = "pending",
            !.pc = "awaitFallback"]
AfterPrimaryResponse(a, status, navThrows) ==
  IF IsOk(status)
    THEN [a EXCEPT !.primary = "ok", !.primaryStatus = status,
                   !.navigations = @ \o Navigate(navThrows),
                   !.pc = "done"]
    ELSE [a EXCEPT !.primary = "notOk", !.primaryStatus = status,
                   !.requests = Append(@, FallbackRequest(a.payload)),
                   !.fallback = "pending",
                   !.pc = "awaitFallback"]

PrimaryResolves(i, status, navThrows) ==
  /\ inflight[i].pc = "awaitPrimary"
  /\ Settle(i, AfterPrimaryResponse(inflight[i], status, navThrows))
  /\ UNCHANGED <<formData, formStartRef, now, sections>>

\* the primary fetch threw: outer catch, Contact.js:262-267
PrimaryRejects(i, message) ==
  /\ inflight[i].pc = "awaitPrimary"
  /\ Settle(i, [inflight[i] EXCEPT
                  !.primary = "threw",
                  !.alerts = Append(@, OuterCatchAlert(message)),
                  !.pc = "done"])
  /\ UNCHANGED <<formData, formStartRef, now, sections>>

\* the fallback fetch resolved with a response, Contact.js:234-246
FallbackResolves(i, status, navThrows) ==
  /\ inflight[i].pc = "awaitFallback"
  /\ Settle(i, IF IsOk(status)
                 THEN [inflight[i] EXCEPT
                         !.fallback = "ok", !.fallbackStatus = status,
                         !.navigations = @ \o Navigate(navThrows),
                         !.pc = "done"]
                 ELSE [inflight[i] EXCEPT
                         !.fallback = "notOk", !.fallbackStatus = status,
                         !.pc = "awaitFallbackJson"])
  /\ UNCHANGED <<formData, formStartRef, now, sections>>

\* the fallback fetch threw: inner catch, Contact.js:250-253
FallbackRejects(i, message) ==
  /\ inflight[i].pc = "awaitFallback"
  /\ Settle(i, [inflight[i] EXCEPT !.fallback = "threw",
                                   !.pc = "awaitPrimaryJson"])
  /\ UNCHANGED <<formData, formStartRef, now, sections>>

\* fallbackResp.json() settled, Contact.js:246-253: fbErr is thrown and the
\* inner catch takes it
FallbackJsonSettles(i, body) ==
  /\ inflight[i].pc = "awaitFallbackJson"
  /\ Settle(i, [inflight[i] EXCEPT
                  !.fbData = body,
                  !.fbErr = FbErr(body, inflight[i].fallbackStatus),
                  !.pc = "awaitPrimaryJson"])
  /\ UNCHANGED <<formData, formStartRef, now, sections>>

\* response.json() settled, Contact.js:253-267: errText is thrown, the outer
\* catch alerts it
PrimaryJsonSettles(i, body) ==
  /\ inflight[i].pc = "awaitPrimaryJson"
  /\ Settle(i, [inflight[i] EXCEPT
                  !.primaryData = body,
                  !.alerts = Append(@, OuterCatchAlert(
                               ErrText(body, inflight[i].primaryStatus))),
                  !.pc = "done"])
  /\ UNCHANGED <<formData, formStartRef, now, sections>>

----------------------------------------------------------------------------
(* Specifications                                                          *)

Next ==
  \/ \E field \in Fields : \E value \in FieldValues(field) :
       handleChange(field, value)
  \/ Tick
  \/ handleSubmit
  \/ \E i \in 1..Len(inflight), status \in Statuses, navThrows \in BOOLEAN :
       PrimaryResolves(i, status, navThrows)
  \/ \E i \in 1..Len(inflight), message \in ExceptionMessages :
       PrimaryRejects(i, message)
  \/ \E i \in 1..Len(inflight), status \in Statuses, navThrows \in BOOLEAN :
       FallbackResolves(i, status, navThrows)
  \/ \E i \in 1..Len(inflight), message \in ExceptionMessages :
       FallbackRejects(i, message)
  \/ \E i \in 1..Len(inflight), body \in FallbackBodies :
       FallbackJsonSettles(i, body)
  \/ \E i \in 1..Len(inflight), body \in PrimaryBodies :
       PrimaryJsonSettles(i, body)

\* the steps the transport takes: a pending fetch() or .json() settles
NetworkStep ==
  \E i \in 1..Len(inflight) :
    \/ \E status \in Statuses, navThrows \in BOOLEAN :
         PrimaryResolves(i, status, navThrows)
    \/ \E message \in ExceptionMessages : PrimaryRejects(i, message)
    \/ \E status \in Statuses, navThrows \in BOOLEAN :
         FallbackResolves(i, status, navThrows)
    \/ \E message \in ExceptionMessages : FallbackRejects(i, message)
    \/ \E body \in FallbackBodies : FallbackJsonSettles(i, body)
    \/ \E body \in PrimaryBodies : PrimaryJsonSettles(i, body)

Spec == Init /\ [][Next]_vars

\* Every request and every body read eventually resolves or rejects.
LiveSpec == Spec /\ WF_vars(NetworkStep)

----------------------------------------------------------------------------
(* The submission of one form out of FormsUnderTest, typed in full and     *)
(* submitted once the minimum time on the page has passed: what the        *)
(* sanitizers, the validators and the payload make of each input           *)

PayloadInit ==
  /\ formData \in FormsUnderTest
  /\ formStartRef = StartMs
  /\ now = StartMs + MaxTicks * TickMs
  /\ isSubmitting = FALSE
  /\ inflight = <<>>
  /\ completed = <<>>
  /\ sections = [c \in Sections |-> EffectMount(NoSection, FALSE)]

PayloadNext ==
  \/ handleSubmit
  \/ \E i \in 1..Len(inflight), status \in Statuses, navThrows \in BOOLEAN :
       PrimaryResolves(i, status, navThrows)
  \/ \E i \in 1..Len(inflight), message \in ExceptionMessages :
       PrimaryRejects(i, message)
  \/ \E i \in 1..Len(inflight), status \in Statuses, navThrows \in BOOLEAN :
       FallbackResolves(i, status, navThrows)
  \/ \E i \in 1..Len(inflight), message \in ExceptionMessages :
       FallbackRejects(i, message)
  \/ \E i \in 1..Len(inflight), body \in FallbackBodies :
       FallbackJsonSettles(i, body)
  \/ \E i \in 1..Len(inflight), body \in PrimaryBodies :
       PrimaryJsonSettles(i, body)

PayloadSpec == PayloadInit /\ [][PayloadNext]_vars

----------------------------------------------------------------------------
(* The life of the two sections with a scroll-reveal effect: mounts,       *)
(* unmounts, scrolling and the callbacks of the observers.  The effect     *)
(* shares no state with the form, whose state these steps leave alone.     *)

\* a step of the section c that takes it to sec
SectionStep(c, sec) ==
  /\ sections' = [sections EXCEPT ![c] = sec]
  /\ UNCHANGED <<formData, formStartRef, now, isSubmitting, inflight, completed>>

\* Hero.js:10-25
HeroMounts(isIntersecting) ==
  /\ ~sections["Hero"].mounted
  /\ sections["Hero"].node < MaxMounts
  /\ Len(sections["Hero"].queued) < MaxQueued
  /\ SectionStep("Hero", EffectMount(sections["Hero"], isIntersecting))

\* Hero.js:27-29
HeroUnmounts ==
  /\ sections["Hero"].mounted
  /\ SectionStep("Hero", EffectCleanup(sections["Hero"]))

\* the user scrolls the Hero section across the threshold
HeroScrolls ==
  /\ sections["Hero"].mounted
  /\ Len(sections["Hero"].queued) < MaxQueued
  /\ SectionStep("Hero", ThresholdCrossed(sections["Hero"]))

\* Hero.js:15-21
HeroCallback ==
  /\ sections["Hero"].queued # <<>>
  /\ SectionStep("Hero", ObserverCallback(sections["Hero"]))

\* Contact.js:7-36: a mount of Contact also starts its form state afresh
ContactMounts(isIntersecting) ==
  /\ ~sections["Contact"].mounted
  /\ sections["Contact"].node < MaxMounts
  /\ Len(sections["Contact"].queued) < MaxQueued
  /\ sections' = [sections EXCEPT
                    !["Contact"] = EffectMount(sections["Contact"], isIntersecting)]
  /\ formData' = InitialFormData
  /\ formStartRef' = now
  /\ isSubmitting' = FALSE
  /\ UNCHANGED <<now, inflight, completed>>

\* Contact.js:38-40
ContactUnmounts ==
  /\ sections["Contact"].mounted
  /\ SectionStep("Contact", EffectCleanup(sections["Contact"]))

\* the user scrolls the Contact section across the threshold
ContactScrolls ==
  /\ sections["Contact"].mounted
  /\ Len(sections["Contact"].queued) < MaxQueued
  /\ SectionStep("Contact", ThresholdCrossed(sections["Contact"]))

\* Contact.js:26-32
ContactCallback ==
  /\ sections["Contact"].queued # <<>>
  /\ SectionStep("Contact", ObserverCallback(sections["Contact"]))

ObserverNext ==
  \/ \E isIntersecting \in BOOLEAN : HeroMounts(isIntersecting)
  \/ HeroUnmounts
  \/ HeroScrolls
  \/ HeroCallback
  \/ \E isIntersecting \in BOOLEAN : ContactMounts(isIntersecting)
  \/ ContactUnmounts
  \/ ContactScrolls
  \/ ContactCallback

ObserverSpec == Init /\ [][ObserverNext]_vars

----------------------------------------------------------------------------
(* Properties                                                              *)

\* the attempts that have returned
Done == { a \in Attempts : a.pc = "done" }

\* the name and the email of fd pass lines 123-135
ValidNameAndEmail(fd) ==
  /\ Len(fd.name) # 0 /\ Len(fd.name) <= MAX_NAME /\ isValidName(fd.name)
  /\ Len(fd.email) # 0 /\ Len(fd.email) <= MAX_EMAIL /\ isValidEmail(fd.email)

\* C1: in every submit attempt whose honeypot field holds a non-empty value,
\* whatever the other fields and the elapsed time are, no request is sent.
C1_HoneypotNeverSends ==
  \A a \in Attempts : a.raw.hp_field # <<>> => a.requests = <<>>

\* C2: every submit attempt made less than minSeconds (5 s) after the form
\* was mounted ends in a local rejection and sends no request, whatever the
\* message, the name, the email and the honeypot are.
C2_TooFastRejectedLocally ==
  \A a \in Attempts :
    a.elapsedMs < minSeconds * 1000 =>
      /\ a.pc = "done"
      /\ a.rejection # "none"
      /\ a.alerts = <<RejectionAlert(a.rejection)>>
      /\ a.requests = <<>>

\* C2 witness: an attempt with valid fields and a message that passes every
\* content check was made too early and was rejected as too fast.
C2_Witness ==
  \E a \in Done :
    /\ a.elapsedMs < minSeconds * 1000
    /\ a.rejection = "tooFast"
    /\ a.raw.message = MsgUrlWithContext
    /\ a.raw.hp_field = <<>>

\* C3: a request is sent only in an attempt whose name, email, sanitized
\* message and four heuristics (honeypot, time, length, link density) all
\* passed, and the request carries the sanitized payload; an attempt that
\* was rejected locally sends no request.
C3_RequestOnlyAfterAllChecks ==
  \A a \in Attempts :
    /\ a.requests # <<>> =>
         /\ ValidNameAndEmail(a.raw)
         /\ Trim(a.raw.hp_field) = <<>>
         /\ a.elapsedMs >= minSeconds * 1000
         /\ LET decoded == DecodedMsg(sanitizeMessage(a.raw.message, MAX_MESSAGE))
            IN /\ Len(decoded) >= minMessageLength
               /\ ~LinkOnly(decoded)
         /\ a.built
         /\ a.payload = BuildPayload(a.raw)
         /\ a.requests[1] = PrimaryRequest(BuildPayload(a.raw))
    /\ a.rejection # "none" => a.requests = <<>> /\ a.pc = "done"

\* C3 witness: an attempt whose message needed sanitizing passed every check
\* and sent its request.
C3_Witness ==
  \E a \in Attempts :
    /\ a.requests # <<>>
    /\ a.rejection = "none"
    /\ a.raw.message = MsgMarkup

\* C4: while a submission is in progress no submit event starts another
\* one: at most one invocation of handleSubmit is suspended, it holds the
\* only pending request, and the submit control stays disabled for as long
\* as it is in flight.
C4_NoConcurrentSubmission ==
  /\ Len(inflight) <= 1
  /\ inflight # <<>> => isSubmitting /\ ~SubmitEnabled
  /\ Cardinality({ i \in 1..Len(inflight) :
                     inflight[i].primary = "pending"
                     \/ inflight[i].fallback = "pending" }) <= 1

\* C4 witness: a submission is in flight while the form holds values that
\* would pass every check, so only the disabled control keeps a second
\* submission out.
C4_Witness ==
  /\ isSubmitting
  /\ Len(inflight) = 1
  /\ inflight[1].pc = "awaitFallback"
  /\ LocalRejection(formData, ElapsedMs(formStartRef, now)) = "none"

\* C5: every submit attempt eventually returns the form to Idle
\* (isSubmitting = FALSE), provided every request and body read settles.
C5_EventuallyIdle == isSubmitting ~> ~isSubmitting

\* C5 witness: an attempt whose primary and fallback requests were both
\* rejected by the endpoint has returned and the form is Idle again.
C5_Witness ==
  \E a \in Done :
    /\ a.primary = "notOk" /\ a.fallback = "notOk"
    /\ ~isSubmitting

\* C6: an attempt navigates to /thank-you exactly once when its primary or
\* its fallback response is 2xx (in-app, or by redirect when the in-app
\* transition throws), and never otherwise.
C6_NavigatesOncePerSuccess ==
  \A a \in Attempts :
    IF a.primary = "ok" \/ a.fallback = "ok"
      THEN Len(a.navigations) = 1 /\ a.navigations[1] \in {"navigate", "location"}
      ELSE a.navigations = <<>>

\* C6 witness: the fallback response was 2xx, the in-app transition threw
\* and the full-page redirect took place.
C6_Witness ==
  \E a \in Done :
    /\ a.primary = "notOk" /\ a.fallback = "ok"
    /\ a.navigations = <<"location">>

\* C7: an attempt sends its fallback request at most once and only after a
\* non-2xx primary response (never after a primary 2xx or a primary
\* exception); it sends at most two requests, the primary one first.
C7_OneFallbackAfterRejection ==
  \A a \in Attempts :
    /\ Len(a.requests) <= 2
    /\ Len(a.requests) >= 1 => a.requests[1].encoding = "json"
    /\ Len(a.requests) = 2 =>
         /\ a.requests[2].encoding = "formdata"
         /\ a.primary = "notOk"
    /\ a.primary \in {"ok", "threw"} => Len(a.requests) = 1 /\ a.fallback = "none"
    /\ a.fallback # "none" => Len(a.requests) = 2

\* C7 witness: an attempt has returned after its primary and its fallback
\* were both rejected, having sent exactly the two requests.
C7_Witness ==
  \E a \in Done :
    /\ a.primary = "notOk" /\ a.fallback = "notOk"
    /\ Len(a.requests) = 2

\* C8: when the primary and the fallback responses are both non-2xx and the
\* fallback body carries an errors list, the text shown to the user is that
\* list, joined by commas.
C8_FallbackErrorsShown ==
  \A a \in Done :
    (a.primary = "notOk" /\ a.fallback = "notOk"
       /\ a.fbData.parseable /\ a.fbData.hasErrors)
      => a.alerts = <<JoinErrors(a.fbData.errors)>>

\* C9: whenever the primary or the fallback request throws a network-level
\* exception, the user sees the generic alert text, not text taken from the
\* exception or from a response body.
C9_NetworkErrorGenericAlert ==
  \A a \in Done :
    (a.primary = "threw" \/ a.fallback = "threw") => a.alerts = <<AlertGeneric>>

\* the whole of m is one match of urlRegex
IsSingleUrl(m) == m # <<>> /\ UrlEnd(m, 1) = Len(m)

\* an attempt that passes name, email, honeypot and time, with a single URL
\* as its message
SingleUrlAttempt(a) ==
  /\ ValidNameAndEmail(a.raw)
  /\ a.raw.hp_field = <<>>
  /\ a.elapsedMs >= minSeconds * 1000
  /\ IsSingleUrl(a.raw.message)

----------------------------------------------------------------------------
\* C11: no request body carries a literal "<" or ">" in its name or in its
\* message, whatever name and message the user typed.
C11_NoAngleBracketSent ==
  \A a \in Attempts : \A k \in 1..Len(a.requests) :
    /\ "<" \notin Range(a.requests[k].name)
    /\ ">" \notin Range(a.requests[k].name)
    /\ "<" \notin Range(a.requests[k].message)
    /\ ">" \notin Range(a.requests[k].message)

\* a message with a "<" that is not part of a tag, and one with a ">", has
\* been sent in the primary and in the fallback request
C11_Witness ==
  \E a \in Attempts :
    /\ Len(a.requests) = 2
    /\ "<" \in Range(stripTags(a.raw.message))
    /\ ">" \in Range(stripTags(a.raw.message))

----------------------------------------------------------------------------
\* C12: the local checks run in the order name, email, honeypot, time on the
\* page, minimum length, link only: an attempt for which some check fails is
\* rejected by the first failing check in that order, shows the message of
\* that check and no other, and sends nothing; an attempt for which no check
\* fails is not rejected.
C12_FirstFailingCheckRejects ==
  \A a \in Attempts :
    LET failed == FailedChecks(a.raw, a.elapsedMs)
        first == CHOOSE k \in 1..Len(CheckOrder) :
                   /\ CheckOrder[k] \in failed
                   /\ \A j \in 1..(k - 1) : CheckOrder[j] \notin failed
    IN IF failed = {} THEN a.rejection = "none"
       ELSE /\ a.rejection = CheckOrder[first]
            /\ a.alerts = <<RejectionAlert(CheckOrder[first])>>
            /\ a.requests = <<>>
            /\ a.pc = "done"

\* an attempt that fails the email, honeypot, time and length checks has been
\* rejected by the email check
C12_Witness ==
  \E a \in Done :
    /\ FailedChecks(a.raw, a.elapsedMs) = {"email", "honeypot", "tooFast", "tooShort"}
    /\ a.rejection = "email"

----------------------------------------------------------------------------
\* the entity-decoded form of an encoded text: each of the five entities
\* stands for its character
EntityDecoded(s) ==
  LET At(lit, t, i) == IF LitAt(t, i, lit, FALSE) THEN i + Len(lit) - 1 ELSE 0
      LtEnd(t, i) == At(<<"&","l","t",";">>, t, i)
      GtEnd(t, i) == At(<<"&","g","t",";">>, t, i)
      QuotEnd(t, i) == At(<<"&","q","u","o","t",";">>, t, i)
      AposEnd(t, i) == At(<<"&","#","3","9",";">>, t, i)
      AmpEnd(t, i) == At(<<"&","a","m","p",";">>, t, i)
      a == ReplaceAll(s, LtEnd, <<"<">>)
      b == ReplaceAll(a, GtEnd, <<">">>)
      c == ReplaceAll(b, QuotEnd, <<"\"">>)
      d == ReplaceAll(c, AposEnd, <<"'">>)
  IN ReplaceAll(d, AmpEnd, <<"&">>)

\* the attempt was not rejected by a check that comes before the length check
PassedEarlierChecks(a) ==
  a.rejection \notin {"name", "email", "honeypot", "tooFast"}

\* C13: the minimum-length check measures the entity-decoded form of the
\* sanitized message: when the earlier checks pass, an attempt is rejected as
\* too short exactly when that form has fewer than 15 characters.
C13_LengthOfDecodedMessage ==
  \A a \in Attempts :
    PassedEarlierChecks(a) =>
      LET decoded ==
            EntityDecoded(sanitizeMessage(a.raw.message, MAX_MESSAGE))
      IN (a.rejection = "tooShort") <=> (Len(decoded) < minMessageLength)

----------------------------------------------------------------------------
\* what the name and email validation made of an attempt
ValidationOutcome(kind) == IF kind \in {"name", "email"} THEN kind ELSE "valid"

\* C14: the validation of name and email depends only on the trimmed values:
\* an attempt gets the validation outcome that the same form with name and
\* email trimmed gets, and its name is accepted exactly when the trimmed name
\* has 1 to 100 characters, all of the allowed set.
C14_ValidationOfTrimmedValues ==
  \A a \in Attempts :
    LET trimmed == [a.raw EXCEPT !.name = Trim(a.raw.name),
                                 !.email = Trim(a.raw.email)]
        name == Trim(a.raw.name)
    IN /\ ValidationOutcome(a.rejection)
            = ValidationOutcome(LocalRejection(trimmed, a.elapsedMs))
       /\ (a.rejection # "name")
            <=> /\ 1 <= Len(name) /\ Len(name) <= 100
                /\ \A k \in 1..Len(name) : name[k] \in NameChars

----------------------------------------------------------------------------
\* C15: in every request body the name has at most 100 characters, the email
\* at most 254 and the message at most 2000, whatever the user typed.
C15_RequestWithinCeilings ==
  \A a \in Attempts : \A k \in 1..Len(a.requests) :
    /\ Len(a.requests[k].name) <= MAX_NAME
    /\ Len(a.requests[k].email) <= MAX_EMAIL
    /\ Len(a.requests[k].message) <= MAX_MESSAGE

----------------------------------------------------------------------------
\* "javascript:" occurs in s, in whatever case
HasJavascriptScheme(s) ==
  \E i \in 1..Len(s) :
    LitAt(s, i, <<"j","a","v","a","s","c","r","i","p","t",":">>, TRUE)

\* C16: stripTags, removeDangerousUris and encodeHtmlEntities are idempotent
\* (applied to their own output they return it unchanged), and the output of
\* removeDangerousUris contains no "javascript:", in whatever case.
C16_SanitizersIdempotent ==
  \A a \in Attempts :
    LET m == a.raw.message
    IN /\ stripTags(stripTags(m)) = stripTags(m)
       /\ removeDangerousUris(removeDangerousUris(m)) = removeDangerousUris(m)
       /\ ~HasJavascriptScheme(removeDangerousUris(m))
       /\ encodeHtmlEntities(encodeHtmlEntities(m)) = encodeHtmlEntities(m)

----------------------------------------------------------------------------
\* the anti-spam heuristics among the local checks
Heuristics == {"honeypot", "tooFast", "tooShort", "linkOnly"}

\* a is the latest attempt before a step and b the latest after it, and the
\* two were rejected by different heuristics
RejectedByDifferentHeuristics(a, b) ==
  /\ a.rejection \in Heuristics
  /\ b.rejection \in Heuristics
  /\ a.rejection # b.rejection

\* C17 as stated: two attempts rejected by different heuristics produce the
\* same observable output, the text of the message included.
C17_SameOutputForEveryHeuristic ==
  [][\A a \in Range(completed), b \in Range(completed') :
       RejectedByDifferentHeuristics(a, b) =>
         /\ a.alerts = b.alerts
         /\ a.requests = b.requests
         /\ a.navigations = b.navigations]_vars

\* C17, amended: two attempts rejected by different heuristics both send
\* nothing, navigate nowhere, leave the form idle and show one message each,
\* but the two messages differ: the text tells which heuristic tripped.
C17_HeuristicsDifferInTextOnly ==
  [][\A a \in Range(completed), b \in Range(completed') :
       RejectedByDifferentHeuristics(a, b) =>
         /\ a.requests = <<>> /\ b.requests = <<>>
         /\ a.navigations = <<>> /\ b.navigations = <<>>
         /\ ~isSubmitting /\ ~isSubmitting'
         /\ Len(a.alerts) = 1 /\ Len(b.alerts) = 1
         /\ a.alerts # b.alerts]_vars

\* an attempt has been rejected as too short and the form, edited since, is
\* about to be rejected as link only
C17_Witness ==
  /\ \E a \in Done : a.rejection = "tooShort"
  /\ ~isSubmitting
  /\ LocalRejection(formData, ElapsedMs(formStartRef, now)) = "linkOnly"

----------------------------------------------------------------------------
\* C18: handleSubmit writes neither the fields of the form nor the time the
\* form was shown: a step of an attempt (its start, a settled await, its
\* return) leaves formData and formStartRef as they were; the sanitized
\* payload lives in the attempt only.
C18_SubmitLeavesFormState ==
  [][(inflight' # inflight \/ completed' # completed
        \/ isSubmitting' # isSubmitting)
       => (formData' = formData /\ formStartRef' = formStartRef)]_vars

\* an attempt whose sanitized message differs from the typed one has been
\* sent and has returned, and the form still holds the message as typed
C18_Witness ==
  \E a \in Done :
    /\ a.requests # <<>>
    /\ a.payload.message # a.raw.message
    /\ formData = a.raw
    /\ formStartRef = StartMs

----------------------------------------------------------------------------
\* the section c keeps a subscription exactly while it is mounted, and then
\* to the element it renders
SubscriptionFollowsMount(c) ==
  sections[c].observed =
    IF sections[c].mounted THEN {sections[c].node} ELSE {}

\* the element of the section c, once marked visible, stays marked while the
\* section remains mounted
VisibleKept(c) ==
  (sections[c].mounted /\ sections[c].visible
     /\ sections'[c].mounted /\ sections'[c].node = sections[c].node)
    => sections'[c].visible

\* C19: for Hero and for Contact, the subscription of the observer is
\* released when the section unmounts, whether or not the callback has run
\* (no subscription remains after the unmount), and once the callback has
\* marked the section visible, no later event removes the mark while the
\* section is mounted.
C19_SubscriptionReleasedMarkKept ==
  /\ [](\A c \in Sections : SubscriptionFollowsMount(c))
  /\ [][\A c \in Sections : VisibleKept(c)]_vars

\* Hero has unmounted after its callback marked it visible, Contact has
\* unmounted before any callback ran, and neither keeps a subscription
C19_Witness ==
  /\ ~sections["Hero"].mounted /\ sections["Hero"].visible
  /\ sections["Hero"].observed = {}
  /\ ~sections["Contact"].mounted /\ ~sections["Contact"].visible
  /\ sections["Contact"].queued # <<>>
  /\ sections["Contact"].observed = {}

----------------------------------------------------------------------------
\* C20: the fallback request carries the name, the email and the message of
\* the primary request of the same attempt, and no honeypot field, whatever
\* the user has typed into the form since the attempt started.
C20_FallbackRepeatsPrimary ==
  \A a \in Attempts :
    Len(a.requests) >= 2 =>
      /\ a.requests[1].encoding = "json"
      /\ a.requests[2].encoding = "formdata"
      /\ a.requests[2].name = a.requests[1].name
      /\ a.requests[2].email = a.requests[1].email
      /\ a.requests[2].message = a.requests[1].message
      /\ a.requests[1].hasHoneypot
      /\ ~a.requests[2].hasHoneypot

\* a fallback request is in flight and the form no longer holds the message
\* that the attempt started with
C20_Witness ==
  \E a \in Range(inflight) :
    /\ a.pc = "awaitFallback"
    /\ Len(a.requests) = 2
    /\ formData.message # a.raw.message
    /\ formData.message # <<>>
    /\ a.requests[2].message # <<>>

====
